---- MODULE Spec2Model ----
(***************************************************************************)
(* The Local Command Protocol server of quarkchain/local.py: the four      *)
(* command handlers of LocalServer, the JSON-RPC sub-protocol and the      *)
(* getStats aggregator, as a state machine whose state is the state        *)
(* engine (qcState), the wall clock and the record of the last handler     *)
(* run (request, collaborator calls, response or escaping exception).      *)
(*                                                                         *)
(* Python values are modelled as follows.  A str is a sequence of code     *)
(* points, a bytes object a sequence of byte values.  None is JNull.  A    *)
(* value produced by json.loads is a tagged record [t, v].  A handler run  *)
(* yields [response, raised, calls]: raised is the class of the exception  *)
(* that leaves the handler ("" when it returns normally).                  *)
(*                                                                         *)
(* Three further specifications look closer at one part each: StatsSpec    *)
(* runs one counting pass of the stats aggregator statement by statement   *)
(* (frame), WireSpec encodes and decodes wire messages (wire), ConnSpec    *)
(* runs the read-dispatch-respond loop of one connection (conn).           *)
(***************************************************************************)
EXTENDS Integers, Sequences, FiniteSets, TLC

VARIABLES qcState, clock, op, request, extern, response, raised, calls,
          frame, wire, conn

vars == <<qcState, clock, op, request, extern, response, raised, calls,
          frame, wire, conn>>

\* The last handler run, which only Spec changes.
lastRun == <<op, request, extern, response, raised, calls>>

\* The values of frame, wire and conn in the specifications that do not use them.
NoFrame == [pc |-> "idle"]

NoWire == [pc |-> "idle"]

NoConn == [pc |-> "idle"]

(***************************************************************************)
(* Bounds of the model.                                                    *)
(***************************************************************************)
MaxText == 2

MaxBlockBytes == 2

MaxTx == 2

MaxShards == 2

MaxChainLen == 3

MaxClock == 1300

(***************************************************************************)
(* Python strings and bytes.                                               *)
(***************************************************************************)
\* Code points a message may hold: "a" (ASCII) and U+00E9 (not ASCII).
CodePoints == {97, 233}

SeqsUpTo(S, n) == UNION {[1..k -> S] : k \in 0..n}

Texts == SeqsUpTo(CodePoints, MaxText)

\* bytes(s, "ascii"): one byte per code point, UnicodeEncodeError when a
\* code point is outside 0..127.
BytesAscii(s) ==
    IF \A i \in 1..Len(s) : s[i] < 128
    THEN [raised |-> "", value |-> [i \in 1..Len(s) |-> s[i]]]
    ELSE [raised |-> "UnicodeEncodeError", value |-> <<>>]

\* "{}".format(e): the text of the exception.
FormatException(e) == e.text

(***************************************************************************)
(* Results of a handler run.                                               *)
(***************************************************************************)
NoResponse == [type |-> "none"]

Return(resp, cs) == [response |-> resp, raised |-> "", calls |-> cs]

Raise(exc, cs) == [response |-> NoResponse, raised |-> exc, calls |-> cs]

(***************************************************************************)
(* Wire schema value objects (constructors).                               *)
(***************************************************************************)
GetBlockTemplateRequest(address, includeRoot, shardMaskList) ==
    [type |-> "GetBlockTemplateRequest", address |-> address,
     includeRoot |-> includeRoot, shardMaskList |-> shardMaskList]

GetBlockTemplateResponse(isRootBlock, blockData) ==
    [type |-> "GetBlockTemplateResponse", isRootBlock |-> isRootBlock,
     blockData |-> blockData]

SubmitNewBlockRequest(isRootBlock, blockData) ==
    [type |-> "SubmitNewBlockRequest", isRootBlock |-> isRootBlock,
     blockData |-> blockData]

SubmitNewBlockResponse(resultCode, resultMessage) ==
    [type |-> "SubmitNewBlockResponse", resultCode |-> resultCode,
     resultMessage |-> resultMessage]

NewTransaction(shardId, transaction) ==
    [shardId |-> shardId, transaction |-> transaction]

AddNewTransactionListRequest(txList) ==
    [type |-> "AddNewTransactionListRequest", txList |-> txList]

AddNewTransactionListResponse(numTxAdded) ==
    [type |-> "AddNewTransactionListResponse", numTxAdded |-> numTxAdded]

JsonRpcRequest(jrpcRequest) ==
    [type |-> "JsonRpcRequest", jrpcRequest |-> jrpcRequest]

JsonRpcResponse(jrpcResponse) ==
    [type |-> "JsonRpcResponse", jrpcResponse |-> jrpcResponse]

(***************************************************************************)
(* Blocks and their binary encoding (quarkchain.core).  A block is         *)
(* [kind, height]; it is encoded as the kind's tag byte followed by the    *)
(* height byte.  Decoding as a kind fails on any other byte string; the    *)
(* text of the failure is the decoder's, given here as errText.            *)
(***************************************************************************)
Bytes == {0, 1}

BlockDatas == SeqsUpTo(Bytes, MaxBlockBytes)

BlockKinds == {"root", "minor"}

KindTag(kind) == IF kind = "root" THEN 1 ELSE 0

Block(kind, height) == [kind |-> kind, height |-> height]

Blocks == {Block(k, h) : k \in BlockKinds, h \in Bytes}

Serialize(block) == <<KindTag(block.kind), block.height>>

Decodes(kind, data) == Len(data) = 2 /\ data[1] = KindTag(kind)

Deserialize(kind, data, errText) ==
    IF Decodes(kind, data)
    THEN [raised |-> FALSE, block |-> Block(kind, data[2]), text |-> <<>>]
    ELSE [raised |-> TRUE, block |-> Block(kind, 0), text |-> errText]

(***************************************************************************)
(* State engine operations whose answers are the engine's own: the answer  *)
(* is an input of the handler run.                                         *)
(***************************************************************************)
\* findBestBlockToMine() -> (isRootBlock, block): (None, None), (True,
\* root block) or (False, minor block).
BestBlocks ==
    {[isRootBlock |-> "None", block |-> Block("minor", 0)]}
    \cup {[isRootBlock |-> "True", block |-> b] : b \in {x \in Blocks : x.kind = "root"}}
    \cup {[isRootBlock |-> "False", block |-> b] : b \in {x \in Blocks : x.kind = "minor"}}

\* appendRootBlock / appendMinorBlock -> None or an error description.
AppendResults ==
    {[isNone |-> TRUE, msg |-> <<>>]} \cup {[isNone |-> FALSE, msg |-> m] : m \in Texts}

Call(fn, args) == [fn |-> fn, args |-> args]

\* addTransactionToQueue(tx): one required argument; a call with any other
\* number of arguments is a TypeError.
AddTransactionToQueue(args) ==
    IF Len(args) = 1 THEN "" ELSE "TypeError"

(***************************************************************************)
(* Command handlers.                                                       *)
(***************************************************************************)
handleGetBlockTemplateRequest_flagLost(req, best) ==
    IF best.isRootBlock = "None"
    THEN Return(GetBlockTemplateResponse(0, <<>>), <<Call("findBestBlockToMine", <<>>)>>)
    ELSE Return(GetBlockTemplateResponse(0, Serialize(best.block)),
                <<Call("findBestBlockToMine", <<>>)>>)

handleGetBlockTemplateRequest(req, best) ==
    IF best.isRootBlock = "None"
    THEN Return(GetBlockTemplateResponse(0, <<>>), <<Call("findBestBlockToMine", <<>>)>>)
    ELSE IF best.isRootBlock = "True"
    THEN Return(GetBlockTemplateResponse(1, Serialize(best.block)),
                <<Call("findBestBlockToMine", <<>>)>>)
    ELSE Return(GetBlockTemplateResponse(0, Serialize(best.block)),
                <<Call("findBestBlockToMine", <<>>)>>)

\* The response to an engine answer msg (None or an error description).
AppendResponse(appendResult, cs) ==
    IF appendResult.isNone
    THEN Return(SubmitNewBlockResponse(0, <<>>), cs)
    ELSE LET m == BytesAscii(appendResult.msg)
         IN  IF m.raised # ""
             THEN Raise(m.raised, cs)
             ELSE Return(SubmitNewBlockResponse(1, m.value), cs)

\* The response to a decode failure e.
DecodeFailure(e) ==
    LET m == BytesAscii(FormatException(e))
    IN  IF m.raised # ""
        THEN Raise(m.raised, <<>>)
        ELSE Return(SubmitNewBlockResponse(1, m.value), <<>>)

handleSubmitNewBlockRequest_minorAlways(req, errText, appendResult) ==
    IF req.isRootBlock # 0
    THEN LET rBlock == Deserialize("root", req.blockData, errText)
         IN  IF rBlock.raised
             THEN DecodeFailure(rBlock)
             ELSE AppendResponse(appendResult,
                                 <<Call("appendMinorBlock", <<rBlock.block>>)>>)
    ELSE LET mBlock == Deserialize("minor", req.blockData, errText)
         IN  IF mBlock.raised
             THEN DecodeFailure(mBlock)
             ELSE AppendResponse(appendResult,
                                 <<Call("appendMinorBlock", <<mBlock.block>>)>>)

handleSubmitNewBlockRequest(req, errText, appendResult) ==
    IF req.isRootBlock # 0
    THEN LET rBlock == Deserialize("root", req.blockData, errText)
         IN  IF rBlock.raised
             THEN DecodeFailure(rBlock)
             ELSE AppendResponse(appendResult,
                                 <<Call("appendRootBlock", <<rBlock.block>>)>>)
    ELSE LET mBlock == Deserialize("minor", req.blockData, errText)
         IN  IF mBlock.raised
             THEN DecodeFailure(mBlock)
             ELSE AppendResponse(appendResult,
                                 <<Call("appendMinorBlock", <<mBlock.block>>)>>)

\* The arguments the loop body passes to addTransactionToQueue for newTx.
EnqueueArgs(newTx) == <<>>

RECURSIVE AddLoop(_, _, _)
AddLoop(txList, i, cs) ==
    IF i > Len(txList)
    THEN Return(AddNewTransactionListResponse(Len(txList)), cs)
    ELSE LET args == EnqueueArgs(txList[i])
             cs2 == Append(cs, Call("addTransactionToQueue", args))
             exc == AddTransactionToQueue(args)
         IN  IF exc # "" THEN Raise(exc, cs2) ELSE AddLoop(txList, i + 1, cs2)

handleAddNewTransactionListRequest(req) == AddLoop(req.txList, 1, <<>>)

(***************************************************************************)
(* The state engine's chains and the block store.  A shard's chain is the  *)
(* sequence of its headers by height (chain[h + 1] has height h); the      *)
(* headers are drawn from HeaderPool with strictly increasing createTime.  *)
(***************************************************************************)
HeaderPool ==
    {[id |-> 1, createTime |-> 600, difficulty |-> 4, numTx |-> 2],
     [id |-> 2, createTime |-> 930, difficulty |-> 5, numTx |-> 0],
     [id |-> 3, createTime |-> 990, difficulty |-> 7, numTx |-> 1]}

Header(shardId, height, p) ==
    [branch |-> shardId, height |-> height, createTime |-> p.createTime,
     difficulty |-> p.difficulty, id |-> p.id]

PoolChains ==
    {c \in UNION {[1..k -> HeaderPool] : k \in 1..MaxChainLen} :
        \A i \in 1..(Len(c) - 1) : c[i].createTime < c[i + 1].createTime}

ShardLists == UNION {[1..n -> PoolChains] : n \in 0..MaxShards}

QcStates ==
    {[shards |-> [s \in 1..Len(l) |->
                    [i \in 1..Len(l[s]) |-> Header(s - 1, i - 1, l[s][i])]],
      rootTip |-> [height |-> 3, difficulty |-> 9]] : l \in ShardLists}

getShardSize(qc) == Len(qc.shards)

getRootBlockTip(qc) == qc.rootTip

getMinorBlockTip(qc, shardId) == qc.shards[shardId + 1][Len(qc.shards[shardId + 1])]

getMinorBlockHeaderByHeight(qc, shardId, height) == qc.shards[shardId + 1][height + 1]

getHash(header) == <<header.branch, header.id>>

\* env.db.getMinorBlockByHash(hash): the stored block, with its txList.
getMinorBlockByHash(hash) ==
    LET p == CHOOSE x \in HeaderPool : x.id = hash[2]
    IN  [hash |-> hash, txList |-> [i \in 1..p.numTx |-> <<hash, i>>]]

RECURSIVE SumSeq(_)
SumSeq(xs) == IF Len(xs) = 0 THEN 0 ELSE xs[1] + SumSeq(Tail(xs))

\* statistics.mean(data): StatisticsError on no data, else sum / n (kept
\* as the fraction num / den).
Mean(xs) ==
    IF Len(xs) = 0
    THEN [raised |-> "StatisticsError", value |-> [num |-> 0, den |-> 1]]
    ELSE [raised |-> "", value |-> [num |-> SumSeq(xs), den |-> Len(xs)]]

(***************************************************************************)
(* Stats aggregator.                                                       *)
(***************************************************************************)
\* The while loop of one shard: the headers the loop body runs on, from the
\* tip down.
RECURSIVE WalkShard(_, _, _, _)
WalkShard(qc, shardId, header, threshold) ==
    IF header.createTime >= threshold
    THEN IF header.height = 0
         THEN <<header>>
         ELSE <<header>> \o WalkShard(qc, shardId,
                  getMinorBlockHeaderByHeight(qc, shardId, header.height - 1),
                  threshold)
    ELSE <<>>

\* The counting functions jrpcGetStats passes, and their application.
One == "lambda h: 1"

LenTxList == "lambda b: len(b.txList)"

Apply(func, x) == IF func = One THEN 1 ELSE Len(x.txList)

countMinorBlockHeaderStatsIn(qc, now, sec, func) ==
    SumSeq([s \in 1..getShardSize(qc) |->
        LET visited == WalkShard(qc, s - 1, getMinorBlockTip(qc, s - 1), now - sec)
        IN  SumSeq([i \in 1..Len(visited) |-> Apply(func, visited[i])])])

\* Line 209 (self.env.db.get) only looks an attribute up and has no effect.
countMinorBlockStatsIn(qc, now, sec, func) ==
    SumSeq([s \in 1..getShardSize(qc) |->
        LET visited == WalkShard(qc, s - 1, getMinorBlockTip(qc, s - 1), now - sec)
        IN  SumSeq([i \in 1..Len(visited) |->
                Apply(func, getMinorBlockByHash(getHash(visited[i])))])])

\* times[k] is the reading of time.time() made by the k-th counting pass.
jrpcGetStats(qc, params, times) ==
    LET tips == [s \in 1..getShardSize(qc) |-> getMinorBlockTip(qc, s - 1)]
        avgHeight == Mean([s \in 1..Len(tips) |-> tips[s].height])
        avgDifficulty == Mean([s \in 1..Len(tips) |-> tips[s].difficulty])
    IN  IF avgHeight.raised # ""
        THEN [raised |-> avgHeight.raised, value |-> [shardSize |-> 0]]
        ELSE IF avgDifficulty.raised # ""
        THEN [raised |-> avgDifficulty.raised, value |-> [shardSize |-> 0]]
        ELSE [raised |-> "",
              value |->
                [shardSize |-> getShardSize(qc),
                 rootHeight |-> getRootBlockTip(qc).height,
                 rootDifficulty |-> getRootBlockTip(qc).difficulty,
                 avgMinorHeight |-> avgHeight.value,
                 avgMinorDifficulty |-> avgDifficulty.value,
                 minorBlocksIn60s |->
                     countMinorBlockHeaderStatsIn(qc, times[1], 60, One),
                 minorBlocksIn300s |->
                     countMinorBlockHeaderStatsIn(qc, times[2], 300, One),
                 transactionsIn60s |->
                     countMinorBlockStatsIn(qc, times[3], 60, LenTxList),
                 transactionsIn300s |->
                     countMinorBlockStatsIn(qc, times[4], 300, LenTxList)]]

(***************************************************************************)
(* JSON values as json.loads yields them, and the Python operations the    *)
(* JSON-RPC handler applies to them.  An object holds the four members     *)
(* the handler may look at; a member that is not present is Absent.        *)
(***************************************************************************)
JNull == [t |-> "null"]

Absent == [t |-> "absent"]

JStr(s) == [t |-> "string", v |-> s]

JNum(n) == [t |-> "number", v |-> n]

JBool(b) == [t |-> "bool", v |-> b]

JArr(items) == [t |-> "array", v |-> items]

JObj(jsonrpc, method, params, id) ==
    [t |-> "object",
     v |-> [jsonrpc |-> jsonrpc, method |-> method, params |-> params, id |-> id]]

IsStr(x, s) == x.t = "string" /\ x.v = s

\* Strings that hold another string as a proper substring.
SubstringPairs == {<<"jsonrpc", "a jsonrpc 2.0 call">>}

\* key in x: membership of a dict key, a substring of a str, an element of
\* a list; TypeError on a number, a boolean or None.
PyIn(key, x) ==
    CASE x.t = "object" -> [raised |-> "", value |-> x.v[key].t # "absent"]
      [] x.t = "string" ->
            [raised |-> "", value |-> x.v = key \/ <<key, x.v>> \in SubstringPairs]
      [] x.t = "array" ->
            [raised |-> "", value |-> \E i \in 1..Len(x.v) : IsStr(x.v[i], key)]
      [] OTHER -> [raised |-> "TypeError", value |-> FALSE]

\* x[key] for a str key: the member of a dict, TypeError on anything else.
PyGetItem(x, key) ==
    IF x.t = "object"
    THEN [raised |-> "", value |-> x.v[key]]
    ELSE [raised |-> "TypeError", value |-> JNull]

\* hash(x) raises TypeError on a list or a dict.
PyHashable(x) == x.t \notin {"array", "object"}

\* request.jrpcRequest.decode("utf8") followed by json.loads.
JsonLoads(payload) ==
    CASE payload.kind = "badutf8" -> [raised |-> "UnicodeDecodeError", value |-> JNull]
      [] payload.kind = "badjson" -> [raised |-> "JSONDecodeError", value |-> JNull]
      [] OTHER -> [raised |-> "", value |-> payload.value]

\* json.dumps(v).encode(): the UTF-8 bytes of the JSON text of v.
JsonDumpsEncode(v) == [utf8json |-> v]

JRPC_MAP_extra == [m \in {"getStats", "noSuchMethod"} |-> "jrpcGetStats"]

JRPC_MAP == [m \in {"getStats"} |-> "jrpcGetStats"]

jrpcError_inverted(errorCode, jrpcId) ==
    IF jrpcId.t = "null"
    THEN JsonRpcResponse(JsonDumpsEncode(
             [jsonrpc |-> "2.0", error |-> [code |-> errorCode], id |-> jrpcId]))
    ELSE JsonRpcResponse(JsonDumpsEncode(
             [jsonrpc |-> "2.0", error |-> [code |-> errorCode]]))

jrpcError(errorCode, jrpcId) ==
    IF jrpcId.t # "null"
    THEN JsonRpcResponse(JsonDumpsEncode(
             [jsonrpc |-> "2.0", error |-> [code |-> errorCode], id |-> jrpcId]))
    ELSE JsonRpcResponse(JsonDumpsEncode(
             [jsonrpc |-> "2.0", error |-> [code |-> errorCode]]))

\* Lines 259-269: the method lookup and the call of the method handler.
DispatchMethod(jrpcRequest, qc, times) ==
    LET method == jrpcRequest.v["method"]
    IN  IF ~PyHashable(method)
        THEN Raise("TypeError", <<>>)
        ELSE IF ~(method.t = "string" /\ method.v \in DOMAIN JRPC_MAP)
        THEN Return(jrpcError(-32601, JNull), <<>>)
        ELSE LET params == IF jrpcRequest.v["params"].t = "absent"
                           THEN JNull ELSE jrpcRequest.v["params"]
                 r == jrpcGetStats(qc, params, times)
                 cs == <<Call(JRPC_MAP[method.v], <<params>>)>>
             IN  IF r.raised # ""
                 THEN Return(jrpcError(-32603, JNull), cs)
                 ELSE Return(JsonRpcResponse(JsonDumpsEncode(r.value)),
                             cs \o [k \in 1..4 |-> Call("time.time", <<times[k]>>)])

\* Line 249: the answer to a payload that does not parse.
OnParseFailure_invalidRequest == jrpcError(-32600, JNull)

OnParseFailure == jrpcError(-32700, JNull)

\* Line 251: jrpcRequest["jsonrpc"] != "2.0".
VersionMismatch_skipped(version) == FALSE

VersionMismatch(version) == ~IsStr(version, "2.0")

handleJsonRpcRequest(req, qc, times) ==
    LET loaded == JsonLoads(req.jrpcRequest)
        jrpcRequest == loaded.value
        has == PyIn("jsonrpc", jrpcRequest)
        version == PyGetItem(jrpcRequest, "jsonrpc")
    IN  IF loaded.raised # ""
        THEN Return(OnParseFailure, <<>>)
        ELSE IF has.raised # ""
        THEN Raise(has.raised, <<>>)
        ELSE IF ~has.value
        THEN Return(jrpcError(-32600, JNull), <<>>)
        ELSE IF version.raised # ""
        THEN Raise(version.raised, <<>>)
        ELSE IF VersionMismatch(version.value)
        THEN Return(jrpcError(-32600, JNull), <<>>)
        ELSE IF ~PyIn("method", jrpcRequest).value
        THEN Return(jrpcError(-32600, JNull), <<>>)
        ELSE DispatchMethod(jrpcRequest, qc, times)

(***************************************************************************)
(* Requests a client may send.                                             *)
(***************************************************************************)
Addresses == {"addr"}

ShardMaskLists == {<<>>, <<1>>}

\* isRootBlock is a uint8: any nonzero value selects the root branch.
Flags == {0, 1, 2}

TxLists ==
    SeqsUpTo({NewTransaction(0, tx) : tx \in {"tx1", "tx2"}}, MaxTx)

NonObjects ==
    {JNull, JBool(TRUE), JNum(5), JStr("abc"), JStr("jsonrpc"),
     JStr("a jsonrpc 2.0 call"), JArr(<<>>), JArr(<<JStr("jsonrpc")>>)}

JsonrpcMembers == {Absent, JStr("2.0"), JStr("1.0"), JNum(2)}

MethodMembers ==
    {Absent, JStr("getStats"), JStr("noSuchMethod"), JNum(7), JArr(<<>>),
     JObj(Absent, Absent, Absent, Absent)}

ParamsMembers == {Absent, JNull, JArr(<<>>)}

IdMembers == {Absent, JNum(1), JStr("abc")}

Objects ==
    {JObj(a, m, p, i) : a \in JsonrpcMembers, m \in MethodMembers,
                        p \in ParamsMembers, i \in IdMembers}

Payloads ==
    {[kind |-> "badutf8", value |-> JNull], [kind |-> "badjson", value |-> JNull]}
    \cup {[kind |-> "json", value |-> x] : x \in NonObjects \cup Objects}

\* Amounts by which the wall clock may advance between two readings.
ClockSteps == {0, 240, 300}

(***************************************************************************)
(* The state machine: one action per handler, each a whole handler run.    *)
(***************************************************************************)
Init ==
    /\ qcState \in QcStates
    /\ clock = 1000
    /\ op = "idle"
    /\ request = [type |-> "none"]
    /\ extern = [type |-> "none"]
    /\ response = NoResponse
    /\ raised = ""
    /\ calls = <<>>
    /\ frame = NoFrame
    /\ wire = NoWire
    /\ conn = NoConn

Ran(name, req, ext, r) ==
    /\ UNCHANGED <<frame, wire, conn>>
    /\ op' = name
    /\ request' = req
    /\ extern' = ext
    /\ response' = r.response
    /\ raised' = r.raised
    /\ calls' = r.calls

GetBlockTemplate ==
    /\ op = "idle"
    /\ \E address \in Addresses, includeRoot \in {0, 1}, masks \in ShardMaskLists,
          best \in BestBlocks :
        LET req == GetBlockTemplateRequest(address, includeRoot, masks)
        IN  /\ Ran("handleGetBlockTemplateRequest", req, [best |-> best],
                   handleGetBlockTemplateRequest(req, best))
            /\ UNCHANGED <<qcState, clock>>

SubmitNewBlock ==
    /\ op = "idle"
    /\ \E flag \in Flags, data \in BlockDatas :
        LET req == SubmitNewBlockRequest(flag, data)
            kind == IF flag # 0 THEN "root" ELSE "minor"
            accepted == [isNone |-> TRUE, msg |-> <<>>]
        IN  /\ \/ /\ Decodes(kind, data)
                  /\ \E appendResult \in AppendResults :
                        Ran("handleSubmitNewBlockRequest", req,
                            [decoded |-> TRUE, errText |-> <<>>,
                             appendResult |-> appendResult],
                            handleSubmitNewBlockRequest(req, <<>>, appendResult))
               \/ /\ ~Decodes(kind, data)
                  /\ \E errText \in Texts :
                        Ran("handleSubmitNewBlockRequest", req,
                            [decoded |-> FALSE, errText |-> errText,
                             appendResult |-> accepted],
                            handleSubmitNewBlockRequest(req, errText, accepted))
            /\ UNCHANGED <<qcState, clock>>

AddNewTransactionList ==
    /\ op = "idle"
    /\ \E txList \in TxLists :
        LET req == AddNewTransactionListRequest(txList)
        IN  /\ Ran("handleAddNewTransactionListRequest", req, [type |-> "none"],
                   handleAddNewTransactionListRequest(req))
            /\ UNCHANGED <<qcState, clock>>

JsonRpc ==
    /\ op = "idle"
    /\ \E payload \in Payloads, steps \in [1..3 -> ClockSteps] :
        LET req == JsonRpcRequest(payload)
            times == <<clock, clock + steps[1], clock + steps[1] + steps[2],
                       clock + steps[1] + steps[2] + steps[3]>>
            r == handleJsonRpcRequest(req, qcState, times)
            reads == SelectSeq(r.calls, LAMBDA c : c.fn = "time.time")
        IN  /\ times[4] <= MaxClock
            /\ Ran("handleJsonRpcRequest", req, [reads |-> Len(reads)], r)
            /\ clock' = IF Len(reads) = 0 THEN clock ELSE reads[Len(reads)].args[1]
            /\ UNCHANGED qcState

\* The run is over (its response written, or the connection closed by the
\* escaping exception); the server awaits the next request.
Finish ==
    /\ op # "idle"
    /\ op' = "idle"
    /\ request' = [type |-> "none"]
    /\ extern' = [type |-> "none"]
    /\ response' = NoResponse
    /\ raised' = ""
    /\ calls' = <<>>
    /\ UNCHANGED <<qcState, clock, frame, wire, conn>>

\* Time passes between two requests.
Tick ==
    /\ op = "idle"
    /\ \E d \in ClockSteps \ {0} : clock + d <= MaxClock /\ clock' = clock + d
    /\ UNCHANGED <<qcState, lastRun, frame, wire, conn>>

Next ==
    \/ GetBlockTemplate
    \/ SubmitNewBlock
    \/ AddNewTransactionList
    \/ JsonRpc
    \/ Finish
    \/ Tick

Spec == Init /\ [][Next]_vars

(***************************************************************************)
(* Vocabulary of the properties.                                           *)
(***************************************************************************)
RanSubmit == op = "handleSubmitNewBlockRequest"

RanTemplate == op = "handleGetBlockTemplateRequest"

RanAddTx == op = "handleAddNewTransactionListRequest"

RanJsonRpc == op = "handleJsonRpcRequest"

Returned(type) == raised = "" /\ response.type = type

\* The JSON document of a JSON-RPC response.
Body == response.jrpcResponse.utf8json

ErrorCodeIs(c) ==
    /\ Returned("JsonRpcResponse")
    /\ "error" \in DOMAIN Body
    /\ Body.error.code = c

\* The calls of JSON-RPC method handlers made by the run.
HandlerCalls == SelectSeq(calls, LAMBDA c : c.fn = "jrpcGetStats")

\* The arguments of the engine's enqueue calls made by the run, in order.
EnqueueCalls == SelectSeq(calls, LAMBDA c : c.fn = "addTransactionToQueue")

Parsed == request.jrpcRequest.kind = "json"

Envelope == request.jrpcRequest.value

IsObject == Parsed /\ Envelope.t = "object"

Member(name) == Envelope.v[name]

Version2 == IsObject /\ IsStr(Member("jsonrpc"), "2.0")

(***************************************************************************)
(* Properties of the command handlers.                                     *)
(***************************************************************************)
\* C1: a submit-block request whose blockData does not decode as the
\* declared kind is answered by a SubmitNewBlockResponse with resultCode 1
\* and a non-empty resultMessage, and no exception leaves the handler,
\* whatever the text of the decode error (empty and non-ASCII included).
C1_DecodeFailureAnswered ==
    (RanSubmit /\ ~extern.decoded) =>
        /\ Returned("SubmitNewBlockResponse")
        /\ response.resultCode = 1
        /\ Len(response.resultMessage) > 0

\* C2: when blockData decodes, an engine answer of None gives resultCode 0
\* with an empty message and an error description m gives resultCode 1 with
\* the message m unchanged; resultCode 0 always comes with an empty message.
C2_EngineAnswerReported ==
    /\ (RanSubmit /\ extern.decoded) =>
          /\ Returned("SubmitNewBlockResponse")
          /\ IF extern.appendResult.isNone
             THEN response.resultCode = 0 /\ response.resultMessage = <<>>
             ELSE /\ response.resultCode = 1
                  /\ response.resultMessage = extern.appendResult.msg
    /\ (RanSubmit /\ Returned("SubmitNewBlockResponse") /\ response.resultCode = 0)
          => response.resultMessage = <<>>

\* C3: every get-block-template request is answered and never fails: no
\* work gives isRootBlock 0 and empty blockData, a root candidate gives
\* isRootBlock 1 and the encoded block, a minor candidate isRootBlock 0 and
\* the encoded block.
C3_TemplateMapping ==
    RanTemplate =>
        /\ Returned("GetBlockTemplateResponse")
        /\ CASE extern.best.isRootBlock = "None" ->
                    response.isRootBlock = 0 /\ response.blockData = <<>>
             [] extern.best.isRootBlock = "True" ->
                    /\ response.isRootBlock = 1
                    /\ response.blockData = Serialize(extern.best.block)
             [] OTHER ->
                    /\ response.isRootBlock = 0
                    /\ response.blockData = Serialize(extern.best.block)

\* C3 witness: a root candidate was answered for a request that names a
\* shard mask and asks for no root block.
C3_Witness ==
    /\ RanTemplate
    /\ extern.best.isRootBlock = "True"
    /\ request.includeRoot = 0
    /\ request.shardMaskList # <<>>
    /\ response.isRootBlock = 1
    /\ response.blockData = <<1, 1>>

\* C4: an add-transactions request with n transactions is answered by an
\* AddNewTransactionListResponse whose numTxAdded is n.
C4_CountIsListLength ==
    RanAddTx =>
        /\ Returned("AddNewTransactionListResponse")
        /\ response.numTxAdded = Len(request.txList)

\* C5: the run calls the engine's enqueue operation once per envelope, in
\* list order, each time with that envelope's transaction.
C5_EachTransactionForwarded ==
    RanAddTx =>
        [i \in 1..Len(EnqueueCalls) |-> EnqueueCalls[i].args]
            = [i \in 1..Len(request.txList) |-> <<request.txList[i].transaction>>]

(***************************************************************************)
(* Properties of the JSON-RPC sub-protocol.                                *)
(***************************************************************************)
\* C6: a payload that is not valid UTF-8 or not valid JSON is answered with
\* error code -32700, and no method handler is invoked.
C6_ParseError ==
    (RanJsonRpc /\ ~Parsed) => ErrorCodeIs(-32700) /\ HandlerCalls = <<>>

\* C6 witness: a payload that is not valid UTF-8 was answered -32700.
C6_Witness ==
    /\ RanJsonRpc
    /\ request.jrpcRequest.kind = "badutf8"
    /\ ErrorCodeIs(-32700)

\* C7: a request object whose jsonrpc member is absent or is not the string
\* "2.0", or whose method member is absent, is answered with -32600 before
\* the method table is looked at: no method handler is invoked.
C7_InvalidRequest ==
    (RanJsonRpc /\ IsObject /\ (~Version2 \/ Member("method").t = "absent")) =>
        ErrorCodeIs(-32600) /\ HandlerCalls = <<>>

\* C7 witness: {"method": "getStats"} without jsonrpc was answered -32600.
C7_Witness ==
    /\ RanJsonRpc
    /\ IsObject
    /\ Member("jsonrpc").t = "absent"
    /\ IsStr(Member("method"), "getStats")
    /\ ErrorCodeIs(-32600)

\* C8: a request with jsonrpc "2.0" and a method name that is no key of
\* JRPC_MAP is answered with -32601 and no method handler is invoked; the
\* only key of JRPC_MAP is getStats.
C8_MethodNotFound ==
    /\ DOMAIN JRPC_MAP = {"getStats"}
    /\ (RanJsonRpc /\ Version2 /\ Member("method").t = "string"
            /\ Member("method").v # "getStats") =>
          ErrorCodeIs(-32601) /\ HandlerCalls = <<>>

\* C8 witness: {"jsonrpc": "2.0", "method": "noSuchMethod"} was answered
\* -32601.
C8_Witness ==
    /\ RanJsonRpc
    /\ Version2
    /\ IsStr(Member("method"), "noSuchMethod")
    /\ ErrorCodeIs(-32601)

\* The clock readings of the run's counting passes.
ClockReads ==
    LET r == SelectSeq(calls, LAMBDA c : c.fn = "time.time")
    IN  [k \in 1..Len(r) |-> r[k].args[1]]

\* C9: for jsonrpc "2.0" and a known method the handler is invoked with the
\* request's params (null when absent); a failing handler (getStats on zero
\* shards included) gives -32603, and a handler that succeeds with v gives a
\* JSON-RPC response whose result member holds v.
C9_ResultOrInternalError ==
    (RanJsonRpc /\ Version2 /\ IsStr(Member("method"), "getStats")) =>
        /\ raised = ""
        /\ Len(HandlerCalls) = 1
        /\ HandlerCalls[1].args[1].t =
              (IF Member("params").t = "absent" THEN "null" ELSE Member("params").t)
        /\ IF getShardSize(qcState) = 0
           THEN ErrorCodeIs(-32603)
           ELSE /\ Returned("JsonRpcResponse")
                /\ "result" \in DOMAIN Body
                /\ Body.result =
                      jrpcGetStats(qcState, HandlerCalls[1].args[1], ClockReads).value

\* C10: every payload is answered by a JsonRpcResponse and no failure leaves
\* the handler, whether the payload is not JSON, is JSON but no object, or is
\* an object whose jsonrpc or method is no string; an error answer carries
\* one of the codes -32700, -32600, -32601, -32603.
C10_NoFaultCrossesBoundary ==
    RanJsonRpc =>
        /\ Returned("JsonRpcResponse")
        /\ "error" \in DOMAIN Body =>
              Body.error.code \in {-32700, -32600, -32601, -32603}

(***************************************************************************)
(* One counting pass, statement by statement (lines 190-216).  frame holds *)
(* the pass's local variables (now, metric, shardId, header), the value of *)
(* range(getShardSize()) (size), the position in the code (pc) and the     *)
(* log of what the pass has done: its calls of time.time, of the state     *)
(* engine and of the block store, and its tests of the while condition.    *)
(* The wall clock may advance between any two statements.                  *)
(***************************************************************************)
\* The windows jrpcGetStats asks for, and one that puts a header exactly on
\* the threshold (createTime 990 at now 1000).
Windows == {10, 60, 300}

CountingPasses ==
    {[fn |-> "countMinorBlockHeaderStatsIn", func |-> One],
     [fn |-> "countMinorBlockStatsIn", func |-> LenTxList]}

\* header before its first assignment, and the engine's answer for a height
\* at which the shard has no header.
NoHeader == [height |-> -1, createTime |-> 0]

Logged(f, entry) == [f EXCEPT !.log = Append(f.log, entry)]

\* The right-hand side of the while condition: now - sec.
Threshold_clockAgain(f, t) == t - f.sec

Threshold(f, t) == f.now - f.sec

\* The pass is called: jrpcGetStats lines 228-231.
StartPass ==
    /\ frame.pc = "idle"
    /\ \E p \in CountingPasses, sec \in Windows :
        frame' = [pc |-> "now", fn |-> p.fn, func |-> p.func, sec |-> sec,
                  now |-> 0, metric |-> 0, size |-> 0, shardId |-> 0,
                  header |-> NoHeader, log |-> <<>>]
    /\ UNCHANGED <<qcState, clock, lastRun, wire, conn>>

\* now = time.time(); metric = 0; range(qcState.getShardSize()).
ReadClock ==
    /\ frame.pc = "now"
    /\ frame' = Logged([frame EXCEPT !.pc = "for", !.now = clock, !.metric = 0,
                                     !.size = getShardSize(qcState), !.shardId = 0],
                       Call("time.time", <<clock>>))
    /\ UNCHANGED <<qcState, clock, lastRun, wire, conn>>

\* for shardId in range(...): header = qcState.getMinorBlockTip(shardId),
\* or return metric when the range is used up.
ForShard ==
    /\ frame.pc = "for"
    /\ IF frame.shardId < frame.size
       THEN frame' = Logged([frame EXCEPT !.pc = "while",
                                 !.header = getMinorBlockTip(qcState, frame.shardId)],
                            Call("getMinorBlockTip", <<frame.shardId>>))
       ELSE frame' = [frame EXCEPT !.pc = "done"]
    /\ UNCHANGED <<qcState, clock, lastRun, wire, conn>>

\* while header.createTime >= now - sec.
WhileTest ==
    /\ frame.pc = "while"
    /\ LET threshold == Threshold(frame, clock)
           inside == frame.header.createTime >= threshold
       IN  frame' = Logged([frame EXCEPT !.pc = IF inside THEN "body" ELSE "for",
                                !.shardId = IF inside THEN @ ELSE @ + 1],
                           Call("while", <<frame.shardId, frame.header.height,
                                           threshold, inside>>))
    /\ UNCHANGED <<qcState, clock, lastRun, wire, conn>>

\* What the loop body adds to metric: func(header) on line 197,
\* func(getMinorBlockByHash(header.getHash())) on lines 211-212.
Counted_genesisSkipped(f) ==
    IF f.header.height = 0
    THEN 0
    ELSE IF f.fn = "countMinorBlockHeaderStatsIn"
    THEN Apply(f.func, f.header)
    ELSE Apply(f.func, getMinorBlockByHash(getHash(f.header)))

Counted(f) ==
    IF f.fn = "countMinorBlockHeaderStatsIn"
    THEN Apply(f.func, f.header)
    ELSE Apply(f.func, getMinorBlockByHash(getHash(f.header)))

\* The block store lookups of one turn of the loop (line 211).
StoreLookups_twice(f) ==
    IF f.fn = "countMinorBlockHeaderStatsIn"
    THEN <<>>
    ELSE <<Call("getMinorBlockByHash", <<getHash(f.header)>>),
           Call("getMinorBlockByHash", <<getHash(f.header)>>)>>

StoreLookups(f) ==
    IF f.fn = "countMinorBlockHeaderStatsIn"
    THEN <<>>
    ELSE <<Call("getMinorBlockByHash", <<getHash(f.header)>>)>>

\* if header.height == 0: break (lines 198-199 and 213-214).
Breaks_never(header) == FALSE

Breaks(header) == header.height = 0

HeaderByHeight(qc, shardId, height) ==
    IF height \in 0..(Len(qc.shards[shardId + 1]) - 1)
    THEN getMinorBlockHeaderByHeight(qc, shardId, height)
    ELSE NoHeader

\* The loop body: count, then break at height 0 or step one height down.
LoopBody ==
    /\ frame.pc = "body"
    /\ LET counted == [frame EXCEPT !.metric = @ + Counted(frame),
                                    !.log = @ \o StoreLookups(frame)]
       IN  IF Breaks(frame.header)
           THEN frame' = [counted EXCEPT !.pc = "for", !.shardId = @ + 1]
           ELSE frame' = Logged([counted EXCEPT !.pc = "while",
                                     !.header = HeaderByHeight(qcState, frame.shardId,
                                                               frame.header.height - 1)],
                                Call("getMinorBlockHeaderByHeight",
                                     <<frame.shardId, frame.header.height - 1>>))
    /\ UNCHANGED <<qcState, clock, lastRun, wire, conn>>

\* return metric: the caller has the count and the frame is gone.
ReturnMetric ==
    /\ frame.pc = "done"
    /\ frame' = NoFrame
    /\ UNCHANGED <<qcState, clock, lastRun, wire, conn>>

\* The wall clock advances while the pass runs or between two passes.
StatsTick ==
    /\ \E d \in ClockSteps \ {0} : clock + d <= MaxClock /\ clock' = clock + d
    /\ UNCHANGED <<qcState, lastRun, frame, wire, conn>>

PassStep == ReadClock \/ ForShard \/ WhileTest \/ LoopBody

StatsNext ==
    \/ StartPass
    \/ ReadClock
    \/ ForShard
    \/ WhileTest
    \/ LoopBody
    \/ ReturnMetric
    \/ StatsTick

\* A pass is synchronous code: once called it runs its statements one after
\* the other, whatever else happens.
StatsSpec == Init /\ [][StatsNext]_vars /\ WF_vars(PassStep)

(***************************************************************************)
(* Vocabulary of the properties of a counting pass.                        *)
(***************************************************************************)
PassRunning == frame.pc # "idle"

PassDone == frame.pc = "done"

HeaderPass == PassRunning /\ frame.fn = "countMinorBlockHeaderStatsIn"

BlockPass == PassRunning /\ frame.fn = "countMinorBlockStatsIn"

LogOf(fn) == SelectSeq(frame.log, LAMBDA c : c.fn = fn)

\* The chain of a shard, by height.
ChainOf(shardId) == qcState.shards[shardId + 1]

\* The number of headers of the longest run that starts at the tip and goes
\* down the heights with every createTime at or above the threshold.
RunLength(chain, threshold) ==
    LET n == Len(chain)
        allInside(k) == \A i \in (n - k + 1)..n : chain[i].createTime >= threshold
    IN  CHOOSE k \in 0..n : allInside(k) /\ \A j \in (k + 1)..n : ~allInside(j)

\* The headers of that run, from the tip down.
RunOf(chain, threshold) ==
    [i \in 1..RunLength(chain, threshold) |-> chain[Len(chain) + 1 - i]]

\* The pass agrees with the operators the handler model uses.
PassAgreesWithOperator ==
    PassDone =>
        frame.metric =
            IF frame.fn = "countMinorBlockHeaderStatsIn"
            THEN countMinorBlockHeaderStatsIn(qcState, frame.now, frame.sec, frame.func)
            ELSE countMinorBlockStatsIn(qcState, frame.now, frame.sec, frame.func)

(***************************************************************************)
(* Properties of the stats aggregator.                                     *)
(***************************************************************************)
\* The chain of the example: one shard whose headers of heights 0, 1, 2 were
\* created 400, 70 and 10 seconds before now.
ExampleChain ==
    /\ Len(qcState.shards) = 1
    /\ Len(ChainOf(0)) = 3
    /\ ChainOf(0)[1].createTime = frame.now - 400
    /\ ChainOf(0)[2].createTime = frame.now - 70
    /\ ChainOf(0)[3].createTime = frame.now - 10

\* C11: the count of countMinorBlockHeaderStatsIn(T, 1 per header) is the sum
\* over the shards of the length of the longest run from the tip downward of
\* headers with createTime >= now - T; one shard with headers at now - 400,
\* now - 70, now - 10 gives 1 for T = 60 and 2 for T = 300.
C11_CountIsRunLengthSum ==
    (PassDone /\ HeaderPass /\ frame.func = One) =>
        /\ frame.metric =
              SumSeq([s \in 1..Len(qcState.shards) |->
                        RunLength(qcState.shards[s], frame.now - frame.sec)])
        /\ (ExampleChain /\ frame.sec = 60) => frame.metric = 1
        /\ (ExampleChain /\ frame.sec = 300) => frame.metric = 2

C11_Witness ==
    /\ PassDone
    /\ HeaderPass
    /\ frame.func = One
    /\ ExampleChain
    /\ frame.sec = 300
    /\ frame.metric = 2

(***************************************************************************)
(* Wire schema (lines 10-104).  FIELDS(type) is the class attribute FIELDS *)
(* as Python evaluates it: a tuple of its entries.  Parentheses around one *)
(* entry without a trailing comma are no tuple, so the FIELDS of           *)
(* AddNewTransactionListResponse (lines 81-83) is the entry itself, the    *)
(* tuple of a str and a serializer.  Serializable, the serializers,        *)
(* Address and Transaction belong to quarkchain.core.                      *)
(***************************************************************************)
uint8 == [k |-> "uint", size |-> 1]

uint32 == [k |-> "uint", size |-> 4]

PreprendedSizeBytesSerializer(sizeBytes) == [k |-> "bytes", sizeBytes |-> sizeBytes]

PreprendedSizeListSerializer(sizeBytes, ser) ==
    [k |-> "list", sizeBytes |-> sizeBytes, ser |-> ser]

\* A Serializable class used as the serializer of a field.
ClassSerializer(name) == [k |-> "class", name |-> name]

\* Address and Transaction: an address is its recipient byte, a transaction
\* its id byte.
Address == [k |-> "opaque", member |-> "recipient"]

Transaction == [k |-> "opaque", member |-> "id"]

\* An entry (name, serializer) of a FIELDS tuple, and an element of a tuple
\* that is no pair: a str or a serializer object.
Pair(name, ser) == [pair |-> TRUE, name |-> name, ser |-> ser]

Str(s) == [pair |-> FALSE, str |-> TRUE, value |-> s]

Obj(ser) == [pair |-> FALSE, str |-> FALSE, value |-> ser]

MessageTypes ==
    {"GetBlockTemplateRequest", "GetBlockTemplateResponse",
     "SubmitNewBlockRequest", "SubmitNewBlockResponse",
     "AddNewTransactionListRequest", "AddNewTransactionListResponse",
     "JsonRpcRequest", "JsonRpcResponse"}

FIELDS(type) ==
    CASE type = "GetBlockTemplateRequest" ->
            <<Pair("address", Address), Pair("includeRoot", uint8),
              Pair("shardMaskList", PreprendedSizeListSerializer(4, uint32))>>
      [] type = "GetBlockTemplateResponse" ->
            <<Pair("isRootBlock", uint8),
              Pair("blockData", PreprendedSizeBytesSerializer(4))>>
      [] type = "SubmitNewBlockRequest" ->
            <<Pair("isRootBlock", uint8),
              Pair("blockData", PreprendedSizeBytesSerializer(4))>>
      [] type = "SubmitNewBlockResponse" ->
            <<Pair("resultCode", uint8),
              Pair("resultMessage", PreprendedSizeBytesSerializer(4))>>
      [] type = "NewTransaction" ->
            <<Pair("shardId", uint32), Pair("transaction", Transaction)>>
      [] type = "AddNewTransactionListRequest" ->
            <<Pair("txList",
                   PreprendedSizeListSerializer(4, ClassSerializer("NewTransaction")))>>
      [] type = "AddNewTransactionListResponse" ->
            <<Str("numTxAdded"), Obj(uint32)>>
      [] type = "JsonRpcRequest" ->
            <<Pair("jrpcRequest", PreprendedSizeBytesSerializer(4))>>
      [] type = "JsonRpcResponse" ->
            <<Pair("jrpcResponse", PreprendedSizeBytesSerializer(4))>>

\* for name, ser in FIELDS: unpacking an element that is no pair raises
\* ValueError on a str of another length than 2, TypeError on an object that
\* cannot be iterated.
UnpackFailure(fields) ==
    IF \A i \in 1..Len(fields) : fields[i].pair
    THEN ""
    ELSE LET first == CHOOSE i \in 1..Len(fields) :
                          /\ ~fields[i].pair
                          /\ \A j \in 1..(i - 1) : fields[j].pair
         IN  IF fields[first].str THEN "ValueError" ELSE "TypeError"

\* An unsigned integer of size bytes, big-endian.
UintBytes(size, v) == [i \in 1..size |-> (v \div (256 ^ (size - i))) % 256]

RECURSIVE UintValue(_)
UintValue(bs) ==
    IF Len(bs) = 0
    THEN 0
    ELSE bs[1] * (256 ^ (Len(bs) - 1)) + UintValue(Tail(bs))

RECURSIVE Flatten(_)
Flatten(seqs) == IF Len(seqs) = 0 THEN <<>> ELSE seqs[1] \o Flatten(Tail(seqs))

\* ser.serialize(value): the bytes of one value; SerializeFields is
\* Serializable.serialize, the concatenation of the fields in FIELDS order.
RECURSIVE SerializeValue(_, _), SerializeFields(_, _)
SerializeValue(ser, v) ==
    CASE ser.k = "uint" -> UintBytes(ser.size, v)
      [] ser.k = "bytes" -> UintBytes(ser.sizeBytes, Len(v)) \o v
      [] ser.k = "list" ->
            UintBytes(ser.sizeBytes, Len(v))
                \o Flatten([i \in 1..Len(v) |-> SerializeValue(ser.ser, v[i])])
      [] ser.k = "class" -> SerializeFields(FIELDS(ser.name), v)
      [] ser.k = "opaque" -> <<v[ser.member]>>

SerializeFields(fields, v) ==
    Flatten([i \in 1..Len(fields) |-> SerializeValue(fields[i].ser, v[fields[i].name])])

WireSerialize(type, v) ==
    IF UnpackFailure(FIELDS(type)) # ""
    THEN [raised |-> UnpackFailure(FIELDS(type)), value |-> <<>>]
    ELSE [raised |-> "", value |-> SerializeFields(FIELDS(type), v)]

\* ser.deserialize(bb): the value read from the front of the bytes and the
\* bytes left, or a failure when the bytes run out.
Failed == [ok |-> FALSE, value |-> <<>>, rest |-> <<>>]

Read(value, rest) == [ok |-> TRUE, value |-> value, rest |-> rest]

Take(bs, n) == SubSeq(bs, 1, n)

Drop(bs, n) == SubSeq(bs, n + 1, Len(bs))

\* cls(**kwargs) for the values read for the fields, in FIELDS order.
Construct(fields, values) ==
    [name \in {fields[i].name : i \in 1..Len(fields)} |->
        values[CHOOSE i \in 1..Len(fields) : fields[i].name = name]]

RECURSIVE DeserializeValue(_, _), DeserializeList(_, _, _), DeserializeFields(_, _, _)
DeserializeValue(ser, bs) ==
    CASE ser.k = "uint" ->
            IF Len(bs) < ser.size
            THEN Failed
            ELSE Read(UintValue(Take(bs, ser.size)), Drop(bs, ser.size))
      [] ser.k = "bytes" ->
            IF Len(bs) < ser.sizeBytes
            THEN Failed
            ELSE LET n == UintValue(Take(bs, ser.sizeBytes))
                     body == Drop(bs, ser.sizeBytes)
                 IN  IF Len(body) < n THEN Failed ELSE Read(Take(body, n), Drop(body, n))
      [] ser.k = "list" ->
            IF Len(bs) < ser.sizeBytes
            THEN Failed
            ELSE DeserializeList(ser.ser, UintValue(Take(bs, ser.sizeBytes)),
                                 Drop(bs, ser.sizeBytes))
      [] ser.k = "class" -> DeserializeFields(FIELDS(ser.name), <<>>, bs)
      [] ser.k = "opaque" ->
            IF Len(bs) < 1 THEN Failed ELSE Read((ser.member :> bs[1]), Tail(bs))

DeserializeList(ser, n, bs) ==
    IF n = 0
    THEN Read(<<>>, bs)
    ELSE IF Len(bs) = 0
    THEN Failed
    ELSE LET head == DeserializeValue(ser, bs)
         IN  IF ~head.ok
             THEN Failed
             ELSE LET tail == DeserializeList(ser, n - 1, head.rest)
                  IN  IF ~tail.ok
                      THEN Failed
                      ELSE Read(<<head.value>> \o tail.value, tail.rest)

\* Serializable.deserialize: the fields in FIELDS order, then cls(**kwargs).
DeserializeFields(fields, values, bs) ==
    IF Len(values) = Len(fields)
    THEN Read(Construct(fields, values), bs)
    ELSE LET field == DeserializeValue(fields[Len(values) + 1].ser, bs)
         IN  IF ~field.ok
             THEN Failed
             ELSE DeserializeFields(fields, Append(values, field.value), field.rest)

\* The message of a payload: every byte of the payload belongs to a field.
WireDeserialize(type, bs) ==
    IF UnpackFailure(FIELDS(type)) # ""
    THEN [raised |-> UnpackFailure(FIELDS(type)), value |-> <<>>]
    ELSE LET r == DeserializeFields(FIELDS(type), <<>>, bs)
         IN  IF r.ok /\ r.rest = <<>>
             THEN [raised |-> "", value |-> ("type" :> type) @@ r.value]
             ELSE [raised |-> "DecodeFailure", value |-> <<>>]

(***************************************************************************)
(* Encoding and decoding, one message at a time.  A message to send is     *)
(* serialized and the bytes are deserialized again; a payload received is  *)
(* deserialized and, when that gives a message, the message is serialized  *)
(* again.                                                                  *)
(***************************************************************************)
MaxWireBytes == 9

Uint8s == {0, 1, 255}

\* 2147483647 (bytes 127 255 255 255) is the largest integer TLC represents.
Uint32s == {0, 1, 65536, 2147483647}

WireAddresses == {[recipient |-> b] : b \in Bytes}

WireTransactions == {[id |-> b] : b \in Bytes}

WireMessages ==
    {GetBlockTemplateRequest(a, r, l) :
        a \in WireAddresses, r \in Uint8s, l \in SeqsUpTo({0, 2147483647}, 2)}
    \cup {GetBlockTemplateResponse(f, d) : f \in Uint8s, d \in BlockDatas}
    \cup {SubmitNewBlockRequest(f, d) : f \in Uint8s, d \in BlockDatas}
    \cup {SubmitNewBlockResponse(c, m) : c \in Uint8s, m \in BlockDatas}
    \cup {AddNewTransactionListRequest(l) :
            l \in SeqsUpTo({NewTransaction(n, t) :
                               n \in {0, 65536}, t \in WireTransactions}, MaxTx)}
    \cup {AddNewTransactionListResponse(n) : n \in Uint32s}
    \cup {JsonRpcRequest(d) : d \in BlockDatas}
    \cup {JsonRpcResponse(d) : d \in BlockDatas}

WirePayloads == SeqsUpTo(Bytes, MaxWireBytes)

\* message.serialize().
WireSend ==
    /\ wire.pc = "idle"
    /\ \E m \in WireMessages :
        wire' = [pc |-> "sent", type |-> m.type, message |-> m,
                 serialized |-> WireSerialize(m.type, m)]
    /\ UNCHANGED <<qcState, clock, lastRun, frame, conn>>

\* The receiver's cls.deserialize of the bytes sent.
WireSentRead ==
    /\ wire.pc = "sent"
    /\ wire.serialized.raised = ""
    /\ wire' = [pc |-> "sentRead", type |-> wire.type, message |-> wire.message,
                serialized |-> wire.serialized,
                read |-> WireDeserialize(wire.type, wire.serialized.value)]
    /\ UNCHANGED <<qcState, clock, lastRun, frame, conn>>

\* cls.deserialize(payload) of a payload that arrives.
WireReceive ==
    /\ wire.pc = "idle"
    /\ \E type \in MessageTypes, payload \in WirePayloads :
        wire' = [pc |-> "received", type |-> type, payload |-> payload,
                 message |-> WireDeserialize(type, payload)]
    /\ UNCHANGED <<qcState, clock, lastRun, frame, conn>>

\* The message received is serialized again.
WireResend ==
    /\ wire.pc = "received"
    /\ wire.message.raised = ""
    /\ wire' = [pc |-> "resent", type |-> wire.type, payload |-> wire.payload,
                message |-> wire.message,
                serialized |-> WireSerialize(wire.type, wire.message.value)]
    /\ UNCHANGED <<qcState, clock, lastRun, frame, conn>>

WireDone ==
    /\ wire.pc # "idle"
    /\ wire' = NoWire
    /\ UNCHANGED <<qcState, clock, lastRun, frame, conn>>

WireNext ==
    \/ WireSend
    \/ WireSentRead
    \/ WireReceive
    \/ WireResend
    \/ WireDone

\* The chains play no part in the encoding: the engine has no shard.
WireInit == Init /\ getShardSize(qcState) = 0

WireSpec == WireInit /\ [][WireNext]_vars

(***************************************************************************)
(* Properties of the wire schema.                                          *)
(***************************************************************************)
\* Every element of the FIELDS of a message type is a (name, serializer)
\* pair.
FieldsArePairs(type) == \A i \in 1..Len(FIELDS(type)) : FIELDS(type)[i].pair

\* Serializing a message and deserializing the bytes gives the message back;
\* deserializing a payload and serializing the message gives the payload
\* back.
RoundTrip ==
    /\ wire.pc = "sent" => wire.serialized.raised = ""
    /\ wire.pc = "sentRead" =>
          wire.read.raised = "" /\ wire.read.value = wire.message
    /\ wire.pc = "resent" =>
          wire.serialized.raised = "" /\ wire.serialized.value = wire.payload

\* C12: for each of the eight message types a message survives encoding (the
\* concatenation of its FIELDS in declared order) followed by decoding,
\* encode(decode(bytes)) = bytes for every well-formed byte string, and the
\* FIELDS declaration of the type is a sequence of (name, serializer) pairs.
C12_RoundTripOverPairs ==
    wire.pc # "idle" => (RoundTrip /\ FieldsArePairs(wire.type))

\* The seven types whose FIELDS are tuples of pairs do round-trip.
RoundTripWherePairs ==
    (wire.pc # "idle" /\ wire.type # "AddNewTransactionListResponse") => RoundTrip

(***************************************************************************)
(* Op-codes and the dispatch table (lines 107-127 and 272-285).            *)
(***************************************************************************)
GET_BLOCK_TEMPLATE_REQUEST == 0

GET_BLOCK_TEMPLATE_RESPONSE == 1

SUBMIT_NEW_BLOCK_REQUEST == 2

SUBMIT_NEW_BLOCK_RESPONSE == 3

ADD_NEW_TRANSACTION_LIST_REQUEST == 4

ADD_NEW_TRANSACTION_LIST_RESPONSE == 5

JSON_RPC_REQUEST == 6

JSON_RPC_RESPONSE == 7

OP_SER_MAP_responsesSwapped ==
    (GET_BLOCK_TEMPLATE_REQUEST :> "GetBlockTemplateRequest")
    @@ (GET_BLOCK_TEMPLATE_RESPONSE :> "GetBlockTemplateResponse")
    @@ (SUBMIT_NEW_BLOCK_REQUEST :> "SubmitNewBlockRequest")
    @@ (SUBMIT_NEW_BLOCK_RESPONSE :> "AddNewTransactionListResponse")
    @@ (ADD_NEW_TRANSACTION_LIST_REQUEST :> "AddNewTransactionListRequest")
    @@ (ADD_NEW_TRANSACTION_LIST_RESPONSE :> "SubmitNewBlockResponse")
    @@ (JSON_RPC_REQUEST :> "JsonRpcRequest")
    @@ (JSON_RPC_RESPONSE :> "JsonRpcResponse")

OP_SER_MAP ==
    (GET_BLOCK_TEMPLATE_REQUEST :> "GetBlockTemplateRequest")
    @@ (GET_BLOCK_TEMPLATE_RESPONSE :> "GetBlockTemplateResponse")
    @@ (SUBMIT_NEW_BLOCK_REQUEST :> "SubmitNewBlockRequest")
    @@ (SUBMIT_NEW_BLOCK_RESPONSE :> "SubmitNewBlockResponse")
    @@ (ADD_NEW_TRANSACTION_LIST_REQUEST :> "AddNewTransactionListRequest")
    @@ (ADD_NEW_TRANSACTION_LIST_RESPONSE :> "AddNewTransactionListResponse")
    @@ (JSON_RPC_REQUEST :> "JsonRpcRequest")
    @@ (JSON_RPC_RESPONSE :> "JsonRpcResponse")

\* request op-code -> (response op-code, handler).
OP_RPC_MAP ==
    (GET_BLOCK_TEMPLATE_REQUEST :>
        [respOp |-> GET_BLOCK_TEMPLATE_RESPONSE,
         handler |-> "handleGetBlockTemplateRequest"])
    @@ (SUBMIT_NEW_BLOCK_REQUEST :>
        [respOp |-> SUBMIT_NEW_BLOCK_RESPONSE,
         handler |-> "handleSubmitNewBlockRequest"])
    @@ (ADD_NEW_TRANSACTION_LIST_REQUEST :>
        [respOp |-> ADD_NEW_TRANSACTION_LIST_RESPONSE,
         handler |-> "handleAddNewTransactionListRequest"])
    @@ (JSON_RPC_REQUEST :>
        [respOp |-> JSON_RPC_RESPONSE, handler |-> "handleJsonRpcRequest"])

(***************************************************************************)
(* One connection: LocalServer.start makes it active and schedules         *)
(* loopForever, the read-dispatch-respond loop of                          *)
(* quarkchain.protocol.Connection over OP_SER_MAP and OP_RPC_MAP.  conn    *)
(* holds the frames the client has sent and the server has not read        *)
(* (inbox), the requests read (received), the responses written, each with *)
(* the number of the request it answers (written), and the result of the   *)
(* handler run under way.  The client may send at any time, also while a   *)
(* handler is suspended at an await.                                       *)
(***************************************************************************)
MaxFrames == 2

Frame(opCode, req) == [op |-> opCode, request |-> req]

ConnFrames ==
    {Frame(GET_BLOCK_TEMPLATE_REQUEST, GetBlockTemplateRequest(a, 1, <<>>)) :
        a \in Addresses}
    \cup {Frame(SUBMIT_NEW_BLOCK_REQUEST, SubmitNewBlockRequest(f, d)) :
            f \in {0, 1}, d \in {<<>>, Serialize(Block("minor", 0))}}
    \cup {Frame(ADD_NEW_TRANSACTION_LIST_REQUEST, AddNewTransactionListRequest(l)) :
            l \in {t \in TxLists : Len(t) <= 1}}
    \cup {Frame(JSON_RPC_REQUEST, JsonRpcRequest(p)) :
            p \in {[kind |-> "badjson", value |-> JNull],
                   [kind |-> "json", value |-> JNull],
                   [kind |-> "json",
                    value |-> JObj(JStr("2.0"), JStr("getStats"), Absent, Absent)]}}

\* What the handler of a request may do, over the answers of the state
\* engine and of the block decoder.
HandlerResults(handler, req) ==
    CASE handler = "handleGetBlockTemplateRequest" ->
            {handleGetBlockTemplateRequest(req, best) : best \in BestBlocks}
      [] handler = "handleSubmitNewBlockRequest" ->
            IF Decodes(IF req.isRootBlock # 0 THEN "root" ELSE "minor", req.blockData)
            THEN {handleSubmitNewBlockRequest(req, <<>>, a) : a \in AppendResults}
            ELSE {handleSubmitNewBlockRequest(req, t, [isNone |-> TRUE, msg |-> <<>>]) :
                     t \in Texts}
      [] handler = "handleAddNewTransactionListRequest" ->
            {handleAddNewTransactionListRequest(req)}
      [] handler = "handleJsonRpcRequest" ->
            {handleJsonRpcRequest(req, qcState, <<clock, clock, clock, clock>>)}

\* start(): self.state = ConnectionState.ACTIVE; ensure_future(loopForever()).
ConnStart ==
    /\ conn.pc = "idle"
    /\ conn' = [pc |-> "read", inbox |-> <<>>, received |-> <<>>, written |-> <<>>,
                result |-> Return(NoResponse, <<>>)]
    /\ UNCHANGED <<qcState, clock, lastRun, frame, wire>>

\* The client sends a request frame.
ClientSend ==
    /\ conn.pc \notin {"idle", "closed"}
    /\ Len(conn.received) + Len(conn.inbox) < MaxFrames
    /\ \E f \in ConnFrames : conn' = [conn EXCEPT !.inbox = Append(@, f)]
    /\ UNCHANGED <<qcState, clock, lastRun, frame, wire>>

\* The loop reads the next frame and looks its op-code up in OP_RPC_MAP.
ReadFrame ==
    /\ conn.pc = "read"
    /\ conn.inbox # <<>>
    /\ conn' = [conn EXCEPT !.pc = "dispatch", !.inbox = Tail(@),
                            !.received = Append(@, Head(conn.inbox))]
    /\ UNCHANGED <<qcState, clock, lastRun, frame, wire>>

\* resp = await handler(self, request): the handler runs and returns or
\* raises.
AwaitHandler ==
    /\ conn.pc = "dispatch"
    /\ LET f == conn.received[Len(conn.received)]
       IN  \E r \in HandlerResults(OP_RPC_MAP[f.op].handler, f.request) :
               conn' = [conn EXCEPT !.pc = "handled", !.result = r]
    /\ UNCHANGED <<qcState, clock, lastRun, frame, wire>>

\* The response is serialized with the class OP_SER_MAP gives for the
\* response op-code and written; a handler that raised, or a response that
\* cannot be serialized, ends the loop and the connection instead.
WriteResponse ==
    /\ conn.pc = "handled"
    /\ LET f == conn.received[Len(conn.received)]
           respOp == OP_RPC_MAP[f.op].respOp
       IN  IF \/ conn.result.raised # ""
              \/ UnpackFailure(FIELDS(OP_SER_MAP[respOp])) # ""
           THEN conn' = [conn EXCEPT !.pc = "closed"]
           ELSE conn' = [conn EXCEPT !.pc = "read",
                             !.written = Append(@, [op |-> respOp,
                                                    response |-> conn.result.response,
                                                    of |-> Len(conn.received)])]
    /\ UNCHANGED <<qcState, clock, lastRun, frame, wire>>

ConnNext ==
    \/ ConnStart
    \/ ClientSend
    \/ ReadFrame
    \/ AwaitHandler
    \/ WriteResponse

ConnInit == Init /\ getShardSize(qcState) = 0

ConnSpec == ConnInit /\ [][ConnNext]_vars

(***************************************************************************)
(* Properties of the connection.                                           *)
(***************************************************************************)
ConnOpen == conn.pc \notin {"idle", "closed"}

\* The k-th response written answers the k-th request read.
InOrder ==
    conn.pc # "idle" =>
        /\ Len(conn.written) <= Len(conn.received)
        /\ \A k \in 1..Len(conn.written) : conn.written[k].of = k

\* A frame is read only when every request read before has its response.
NoPipelining ==
    conn.pc = "read" => Len(conn.written) = Len(conn.received)

\* C13: on one connection the responses are written in the order of the
\* requests, request k + 1 is not read before the response to request k is
\* written, also while a handler is suspended, and each request read gets
\* exactly one response.
C13_FifoOneToOne ==
    /\ InOrder
    /\ NoPipelining
    /\ conn.pc = "closed" => Len(conn.written) = Len(conn.received)

(***************************************************************************)
(* Properties of the dispatch table.                                       *)
(***************************************************************************)
\* C14: the dispatch table pairs the request op-codes 0, 2, 4, 6 with the
\* response op-codes 1, 3, 5, 7, both op-codes of a pair have a class in
\* OP_SER_MAP, and whatever the handler of a request op-code returns, for a
\* success or for an error, is an instance of the class of the paired
\* response op-code.
C14_PairedSchemas ==
    /\ DOMAIN OP_RPC_MAP = {0, 2, 4, 6}
    /\ \A X \in DOMAIN OP_RPC_MAP :
        /\ OP_RPC_MAP[X].respOp = X + 1
        /\ {X, X + 1} \subseteq DOMAIN OP_SER_MAP
        /\ (op = OP_RPC_MAP[X].handler /\ raised = "") =>
              /\ request.type = OP_SER_MAP[X]
              /\ response.type = OP_SER_MAP[OP_RPC_MAP[X].respOp]

\* A handler returns on its error path.
C14_Witness ==
    /\ RanSubmit
    /\ Returned("SubmitNewBlockResponse")
    /\ response.resultCode = 1
    /\ OP_RPC_MAP[SUBMIT_NEW_BLOCK_REQUEST].handler = op

(***************************************************************************)
(* Properties of the backward walk.                                        *)
(***************************************************************************)
\* What the pass has done on one shard, in order: the tip lookup, the tests
\* of the while condition and the header-by-height lookups.
ShardLog(shardId) ==
    SelectSeq(frame.log,
              LAMBDA c : /\ c.fn \in {"getMinorBlockTip", "while",
                                      "getMinorBlockHeaderByHeight"}
                         /\ c.args[1] = shardId)

\* The heights of the headers tested on a shard, the headers counted (the
\* tests that held) and the heights asked for by height.
TestsOf(shardId) == SelectSeq(ShardLog(shardId), LAMBDA c : c.fn = "while")

CountedOf(shardId) == SelectSeq(TestsOf(shardId), LAMBDA c : c.args[4])

LookupsOf(shardId) ==
    SelectSeq(ShardLog(shardId), LAMBDA c : c.fn = "getMinorBlockHeaderByHeight")

\* The walk of a shard is over at a test that fails and after the header of
\* height 0 is counted.
Stops(c) == c.fn = "while" /\ (~c.args[4] \/ c.args[2] = 0)

WalkIsOrderly ==
    PassRunning =>
        \A s \in 0..(Len(qcState.shards) - 1) :
            LET log == ShardLog(s)
                tests == TestsOf(s)
                lookups == LookupsOf(s)
            IN  /\ Len(tests) > 0 =>
                      tests[1].args[2] = getMinorBlockTip(qcState, s).height
                /\ \A i \in 1..(Len(tests) - 1) :
                      tests[i + 1].args[2] = tests[i].args[2] - 1
                /\ \A i \in 1..Len(lookups) : lookups[i].args[2] >= 0
                /\ \A i \in 1..Len(log) : Stops(log[i]) => i = Len(log)
                /\ Len(lookups) <= Len(CountedOf(s))

\* C15: the walk terminates; on a shard it visits the tip and then headers of
\* strictly decreasing height, stops after the header of height 0 without
\* asking for a negative height, stops at the first header below now - T
\* without looking up a header below it, and makes at most as many
\* header-by-height lookups as it counts headers.
C15_WalkTerminates == []WalkIsOrderly /\ (PassRunning ~> PassDone)

\* A pass is over that stopped on one shard after the header of height 0 and
\* on another at a header below the threshold.
C15_Witness ==
    /\ PassDone
    /\ \E s \in 0..(Len(qcState.shards) - 1) :
        \E i \in 1..Len(TestsOf(s)) :
            TestsOf(s)[i].args[4] /\ TestsOf(s)[i].args[2] = 0
    /\ \E s \in 0..(Len(qcState.shards) - 1) :
        /\ Len(LookupsOf(s)) > 0
        /\ \E i \in 1..Len(TestsOf(s)) : ~TestsOf(s)[i].args[4]

\* The hashes the block store was asked for, in order.
HashesLookedUp ==
    LET l == LogOf("getMinorBlockByHash") IN [i \in 1..Len(l) |-> l[i].args[1]]

\* The hashes of the headers inside the window, shard by shard from the tip
\* down.
HashesInWindow ==
    Flatten([s \in 1..Len(qcState.shards) |->
        LET run == RunOf(qcState.shards[s], frame.now - frame.sec)
        IN  [i \in 1..Len(run) |-> getHash(run[i])]])

\* The header of a hash.
HeaderOfHash(hash) ==
    CHOOSE h \in {ChainOf(hash[1])[i] : i \in 1..Len(ChainOf(hash[1]))} :
        getHash(h) = hash

\* C16: countMinorBlockStatsIn asks the store for a full block by hash once
\* for each header inside the window and never for a header outside it, and
\* its result is the sum of the txList lengths of those blocks;
\* countMinorBlockHeaderStatsIn asks the store for nothing.
C16_OneStoreLookupPerHeader ==
    /\ HeaderPass => HashesLookedUp = <<>>
    /\ BlockPass =>
          /\ \A i \in 1..Len(HashesLookedUp) :
                /\ HeaderOfHash(HashesLookedUp[i]).createTime >= frame.now - frame.sec
                /\ \A j \in 1..Len(HashesLookedUp) :
                      HashesLookedUp[i] = HashesLookedUp[j] => i = j
          /\ PassDone =>
                /\ HashesLookedUp = HashesInWindow
                /\ frame.metric =
                      SumSeq([i \in 1..Len(HashesInWindow) |->
                                Len(getMinorBlockByHash(HashesInWindow[i]).txList)])

\* A transaction count is over that looked two blocks up and left a header
\* outside the window alone.
C16_Witness ==
    /\ BlockPass
    /\ PassDone
    /\ Len(HashesLookedUp) >= 2
    /\ frame.metric > 0
    /\ \E s \in 1..Len(qcState.shards) :
          RunLength(qcState.shards[s], frame.now - frame.sec) < Len(qcState.shards[s])

\* The tests of the while condition made by the pass, on all shards.
AllTests == LogOf("while")

\* C17: a counting pass reads the clock exactly once, before it visits any
\* shard, and compares every header of every shard with the same threshold
\* now - T, also when the clock advances while the pass runs.
C17_OneClockReading ==
    /\ (PassRunning /\ frame.pc = "now") => frame.log = <<>>
    /\ (PassRunning /\ frame.pc # "now") =>
          /\ Len(LogOf("time.time")) = 1
          /\ frame.log[1].fn = "time.time"
          /\ frame.now = frame.log[1].args[1]
          /\ \A i \in 1..Len(AllTests) :
                AllTests[i].args[3] = frame.log[1].args[1] - frame.sec

\* A pass is over that tested headers of two shards while the clock advanced.
C17_Witness ==
    /\ PassDone
    /\ clock > frame.now
    /\ \E i, j \in 1..Len(AllTests) :
          /\ AllTests[i].args[1] # AllTests[j].args[1]
          /\ AllTests[j].args[2] > 0
          /\ AllTests[j].args[4]

(***************************************************************************)
(* Further properties of the command handlers.                             *)
(***************************************************************************)
\* The request of the run with its id member taken away.
RequestWithoutId ==
    JsonRpcRequest([kind |-> "json",
                    value |-> JObj(Member("jsonrpc"), Member("method"),
                                   Member("params"), Absent)])

\* The clock readings the run made, or the clock when it made none.
RunTimes ==
    IF Len(ClockReads) = 4 THEN ClockReads ELSE <<clock, clock, clock, clock>>

\* C18: the id of a JSON-RPC request is not echoed: no response of
\* handleJsonRpcRequest has an id member, an error response is exactly
\* {"jsonrpc": "2.0", "error": {"code": c}} with c one of -32700, -32600,
\* -32601, -32603, and the same request without its id gets the same
\* response.
C18_IdNotEchoed ==
    RanJsonRpc =>
        /\ Returned("JsonRpcResponse") =>
              /\ "id" \notin DOMAIN Body
              /\ "error" \in DOMAIN Body =>
                    \E c \in {-32700, -32600, -32601, -32603} :
                        Body = [jsonrpc |-> "2.0", error |-> [code |-> c]]
        /\ IsObject =>
              LET without == handleJsonRpcRequest(RequestWithoutId, qcState, RunTimes)
              IN  /\ response = without.response
                  /\ raised = without.raised

\* A request that has an id is answered with an error.
C18_Witness ==
    /\ RanJsonRpc
    /\ IsObject
    /\ Member("id").t # "absent"
    /\ ErrorCodeIs(-32601)

\* The append operations of the state engine called by the run.
AppendCalls ==
    SelectSeq(calls, LAMBDA c : c.fn \in {"appendRootBlock", "appendMinorBlock"})

\* C19: one submit-block request calls at most one append operation of the
\* state engine, of the kind the flag selects (appendRootBlock for a nonzero
\* isRootBlock, appendMinorBlock for zero), and none when the block bytes do
\* not decode: a failed decode leaves the state engine alone.
C19_OneAppendOfTheFlaggedKind ==
    RanSubmit =>
        /\ Len(AppendCalls) <= 1
        /\ \A i \in 1..Len(AppendCalls) :
              AppendCalls[i].fn =
                  IF request.isRootBlock # 0 THEN "appendRootBlock" ELSE "appendMinorBlock"
        /\ extern.decoded => Len(AppendCalls) = 1
        /\ ~extern.decoded => calls = <<>>

\* A flag that is neither 0 nor 1 sends a block that decodes to
\* appendRootBlock.
C19_Witness ==
    /\ RanSubmit
    /\ request.isRootBlock = 2
    /\ Len(AppendCalls) = 1
    /\ AppendCalls[1].fn = "appendRootBlock"

\* The run returned the stats object of jrpcGetStats.
StatsReturned ==
    /\ RanJsonRpc
    /\ Returned("JsonRpcResponse")
    /\ "minorBlocksIn60s" \in DOMAIN Body

\* C20: in every stats object of one getStats call minorBlocksIn60s <=
\* minorBlocksIn300s and transactionsIn60s <= transactionsIn300s, by whatever
\* amount the clock advances between the four counting passes.
C20_ShortWindowWithinLong ==
    StatsReturned =>
        /\ Body.minorBlocksIn60s <= Body.minorBlocksIn300s
        /\ Body.transactionsIn60s <= Body.transactionsIn300s

\* The counts are nested when the clock advances by no more than 240 seconds
\* between the 60 second pass and the 300 second pass.
WindowsNestWhenClockSteady ==
    StatsReturned =>
        /\ ClockReads[2] - ClockReads[1] <= 240 =>
              Body.minorBlocksIn60s <= Body.minorBlocksIn300s
        /\ ClockReads[4] - ClockReads[3] <= 240 =>
              Body.transactionsIn60s <= Body.transactionsIn300s

====
